---- MODULE Spec2Model ----
(***************************************************************************)
(* Model of the travel-ai-platform trip pipeline.                          *)
(*                                                                         *)
(*   gateway-service   POST /trip/plan pushes a request on the Redis list  *)
(*   worker-service    worker_loop pops a request and runs                 *)
(*                     TripOrchestrator.process_trip_request:              *)
(*                     normalize -> create_normalised_message ->           *)
(*                     build_context -> retrieve -> generate_plan ->       *)
(*                     create_message(assistant)                           *)
(*   db-service        messages / normalised_message tables and the        *)
(*                     /vdb/memories vector store                          *)
(*                                                                         *)
(* Optional[int] values are sequences: <<>> is None, <<n>> is the int n.   *)
(* Optional[str] values are strings, NoneS standing for None.              *)
(***************************************************************************)
EXTENDS Integers, Sequences, FiniteSets, TLC

\* ---------------------------------------------------------------- bounds
\* Total number of requests the gateway pushes in one behaviour.
MaxEnqueue == 2
\* Total number of POST /vdb/memories calls in one behaviour of SpecVdb.
MaxUpserts == 3
\* Largest duration_days hint offered to normalize in SpecNorm.
MaxHint == 5
\* Largest number of user turns in the thread history of SpecCtx.
MaxTurns == 2
\* Largest number of rows of thread t1 in SpecLatest.
MaxThread == 101
\* Largest number of rows of thread t1 in SpecWindow.
MaxHistory == 51
\* Largest number of rows of thread t1 in SpecOrder.
MaxOrderRows == 3
\* Largest created_at of a row in SpecOrder.
MaxStamp == 2

\* ------------------------------------------------------- program constants
SHORT_WINDOW_MSG_COUNT == 10
\* the default trip length of the rule-based planner
DEFAULT_DAYS == 3

NoneS == "<None>"

\* Settings
DEFAULT_REGION_CODE == "US-CA"
SUPPORTED_TRIP_TYPES == {"TREKKING", "CAMPING", "ROAD_TRIP", "CITY_BREAK"}
SUPPORTED_DIFFICULTY == {"EASY", "MODERATE", "HARD"}
SUPPORTED_TRAVEL_MODES == {"CAR", "TRAIN", "BUS"}
SUPPORTED_ACCOM == {"CAMPING", "HOTEL", "HOSTEL"}
SUPPORTED_AMENITIES == {"WI_FI", "POOL", "PARKING"}
\* band -> (lo, hi)
BUDGET_BANDS ==
    ("USD_0_500" :> <<0, 500>>) @@ ("USD_500_1000" :> <<500, 1000>>)
        @@ ("USD_1000_2000" :> <<1000, 2000>>)

\* GET /trip/latest: db.get_thread_messages(thread_id, skip=0, limit=100)
LATEST_LIMIT == 100

\* STATE_WINDOW = max(30, SHORT_WINDOW * 5)
STATE_WINDOW == IF SHORT_WINDOW_MSG_COUNT * 5 > 30 THEN SHORT_WINDOW_MSG_COUNT * 5 ELSE 30

\* --------------------------------------------------------- queue payloads
\* RawDestination; name is a sequence of words, <<>> standing for None.
NoPlace == [present |-> FALSE, name |-> <<>>, region_code |-> NoneS]
MkPlace(name, region_code) == [present |-> TRUE, name |-> name, region_code |-> region_code]

\* One JSON value on the trip_requests list.  kind "dict" is a JSON object
\* with the given keys (a key whose value is NoneS or <<>> is absent),
\* "empty" is the JSON object {}, "str" is a value that is not a JSON object.
\* dates.start and dates.end are days of the year 2025 (1 is 2025-01-01).
\* The keys of user_filters (alias constraints) are kept at the top level.
MkPayload(kind, rid, tid, mid, content, start, end, dd) ==
    [kind |-> kind, request_id |-> rid, thread_id |-> tid, message_id |-> mid,
     content |-> content, start |-> start, end |-> end, duration_days |-> dd,
     origin |-> NoPlace, destination |-> NoPlace,
     difficulty |-> NoneS, budget_level |-> NoneS,
     trip_types |-> <<>>, travel_modes |-> <<>>, accommodation |-> <<>>,
     amenities |-> <<>>]

NoTask == MkPayload("none", NoneS, NoneS, NoneS, NoneS, <<>>, <<>>, <<>>)

Payloads ==
    { MkPayload("dict", "r1", "t1", "m1", "c", <<>>, <<>>, <<0>>),     \* well formed
      [MkPayload("dict", "r2", "t1", "m2", "c", <<4>>, <<6>>, <<1>>)   \* with dates
          EXCEPT !.amenities = <<"PARKING">>],
      MkPayload("dict", "r3", NoneS, "m1", "c", <<>>, <<>>, <<>>),     \* no thread_id
      MkPayload("dict", "r4", "t1", "m1", NoneS, <<>>, <<>>, <<>>),    \* no content
      MkPayload("dict", "r5", "t9", "m1", "c", <<>>, <<>>, <<1>>),     \* thread unknown to the db
      MkPayload("empty", NoneS, NoneS, NoneS, NoneS, <<>>, <<>>, <<>>),
      MkPayload("str", NoneS, NoneS, NoneS, NoneS, <<>>, <<>>, <<>>) }

\* --------------------------------------------------------------- db rows
\* created_at is a point in time (a number); isoformat strings of the same
\* clock compare as the times do
MkRow(id, tid, role, text, created_at) ==
    [id |-> id, thread_id |-> tid, role |-> role, text |-> text, created_at |-> created_at]

\* Texts of the user turns already stored in thread t1 (token sequences).
UserTexts == { <<"hi">>, <<"4", "days">>, <<"0", "days">>, <<"one", "day", "trip">> }

VARIABLES
    queue,        \* Redis list trip_requests, head first
    enqueued,     \* number of pushes so far
    running,      \* worker-service main.running
    pc,           \* position of the worker coroutine
    task,         \* worker_loop local: the popped request
    norm,         \* process_trip_request local: normalized
    ctx,          \* process_trip_request local: context_pack
    grounded,     \* process_trip_request local: grounded_context
    plan,         \* process_trip_request local: trip_response
    exc,          \* stage whose exception is being handled, "none" if none
    stages,       \* stages started by the current invocation, in order
    outcome,      \* idle | running | plan | returned_none | raised
    diag,         \* a system-role diagnostic message was persisted by this invocation
    faults,       \* collaborator calls that raised during this invocation
    threads,      \* db-service table threads (ids)
    messages,     \* db-service table messages, ordered by created_at
    normalised,   \* db-service table normalised_message (primary keys)
    use_gemini,   \* LLMModule.use_gemini, fixed at construction
    firstPlan,    \* (thread_id, message_id) of invocations that returned a plan
    pendingRetry, \* requests whose last processing raised into worker_loop
    memStore,     \* Chroma collection "memories": records (id, text)
    upserts,      \* number of upsert calls so far
    lastUpsert,   \* per record id, the texts of its last two upsert_message calls
    latest        \* the last response of GET /trip/latest, with its query parameters

workerVars == <<pc, task, norm, ctx, grounded, plan, exc, stages, outcome, diag, faults>>
dbVars == <<threads, messages, normalised>>
vdbVars == <<memStore, upserts, lastUpsert>>
gatewayVars == <<latest>>
vars == <<queue, enqueued, running, workerVars, dbVars, use_gemini, firstPlan,
          pendingRetry, vdbVars, gatewayVars>>

\* ------------------------------------------------------ empty local values
\* Constraints with nothing in it; difficulty without a key is the dict {}
NoBudget == [present |-> FALSE, band |-> NoneS, ceiling_total |-> <<>>, per_day |-> <<>>]
NoConstraints ==
    [trip_types |-> <<>>,
     difficulty |-> [level |-> NoneS, effort_profile |-> NoneS],
     transport |-> [allowed |-> <<>>],
     lodging |-> [types |-> <<>>, amenities_prefer |-> <<>>],
     budget |-> NoBudget]
NoGeoscope == [origin |-> NoPlace, destination |-> NoPlace,
               in_scope_only |-> FALSE, out_of_scope |-> FALSE]
\* NormalizedMessage; the fields of the time block are kept at the top level
NoNorm == [set |-> FALSE, thread_id |-> NoneS, message_id |-> NoneS, days |-> <<>>,
           start |-> <<>>, end |-> <<>>, nights |-> <<>>, season_hint |-> NoneS,
           geoscope |-> NoGeoscope, constraints |-> NoConstraints]
NoAnchorSet == [origin_name |-> <<>>, destination_name |-> <<>>, duration_days |-> <<>>,
                depart_time_hhmm |-> NoneS, return_same_day |-> <<>>, travel_mode |-> NoneS]
\* context_pack; derived is applied_fills.derived_from_chat
NoCtx == [set |-> FALSE, thread_id |-> NoneS, message_id |-> NoneS, days |-> <<>>,
          depart_time_local |-> NoneS, return_same_day |-> <<>>,
          geoscope |-> NoGeoscope, constraints |-> NoConstraints,
          recent |-> <<>>, history |-> <<>>, last_user |-> <<>>,
          long_term_memories |-> <<>>, derived |-> NoAnchorSet]
NoRetrieved == [weather |-> FALSE, pois |-> <<>>, lodging |-> <<>>]
NoGrounded == [set |-> FALSE, retrieved_data |-> NoRetrieved]
\* the lodging object of a trip plan (null when not present); notes is a
\* sequence of words
NoLodging == [present |-> FALSE, notes |-> <<>>]
NoPlan == [src |-> "none", keys |-> {}, days |-> 0, itinerary |-> <<>>, thread_id |-> NoneS,
           lodging |-> NoLodging]
\* no GET /trip/latest answered yet; message is the id of the returned row
NoLatest == [called |-> FALSE, thread_id |-> NoneS, after_message_id |-> NoneS,
             status |-> NoneS, message |-> NoneS]

\* ids and texts offered to POST /vdb/memories
VdbThreads == {"t1", "t2"}
VdbMessages == {"m1", "m2"}
VdbTexts == {"", "a", "b"}
DocId(tid, mid) == tid \o ":" \o mid
DocIds == { DocId(t, m) : t \in VdbThreads, m \in VdbMessages }

Init ==
    /\ queue = <<>>
    /\ enqueued = 0
    /\ running = TRUE
    /\ pc = "loop"
    /\ task = NoTask
    /\ norm = NoNorm
    /\ ctx = NoCtx
    /\ grounded = NoGrounded
    /\ plan = NoPlan
    /\ exc = "none"
    /\ stages = <<>>
    /\ outcome = "idle"
    /\ diag = FALSE
    /\ faults = {}
    /\ threads = {"t1"}
    /\ \E txt \in UserTexts :
          messages = << MkRow("m1", "t1", "user", txt, 1),
                        MkRow("m2", "t1", "user", <<"hi">>, 2) >>
    /\ normalised = {}
    /\ use_gemini \in BOOLEAN
    /\ firstPlan = {}
    /\ pendingRetry = {}
    /\ memStore = {}
    /\ upserts = 0
    /\ lastUpsert = [d \in DocIds |-> <<>>]
    /\ latest = NoLatest

\* ------------------------------------------------------------- gateway
push_tail(q, item) == q \o <<item>>

\* QueueProducer.push: LPUSH puts the item at the head of the list.
push(q, item) == <<item>> \o q

\* POST /trip/plan
submit_trip_request(p) ==
    /\ enqueued < MaxEnqueue
    /\ queue' = push(queue, p)
    /\ enqueued' = enqueued + 1
    /\ UNCHANGED <<running, workerVars, dbVars, use_gemini, firstPlan, pendingRetry, vdbVars, gatewayVars>>

\* ---------------------------------------------------------- worker loop
\* handle_shutdown
handle_shutdown ==
    /\ running
    /\ running' = FALSE
    /\ UNCHANGED <<queue, enqueued, workerVars, dbVars, use_gemini, firstPlan,
                   pendingRetry, vdbVars, gatewayVars>>

\* while running: ... / await orchestrator.close()
LoopTest ==
    /\ pc = "loop"
    /\ pc' = IF running THEN "pop" ELSE "closed"
    /\ UNCHANGED <<queue, enqueued, running, task, norm, ctx, grounded, plan, exc, stages,
                   outcome, diag, faults, dbVars, use_gemini, firstPlan, pendingRetry,
                   vdbVars, gatewayVars>>

\* pop taken by a second consumer task that does not wait for the current
\* process_trip_request to finish
PopItem_concurrent ==
    /\ pc \notin {"closed", "got"}
    /\ queue # <<>>
    /\ task' = Head(queue)
    /\ queue' = Tail(queue)
    /\ pendingRetry' = pendingRetry \ {Head(queue)}
    /\ pc' = "got"
    /\ UNCHANGED <<enqueued, running, norm, ctx, grounded, plan, exc, stages, outcome,
                   diag, faults, dbVars, use_gemini, firstPlan, vdbVars, gatewayVars>>

\* QueueConsumer.pop: BLPOP returned an item from the head of the list.
PopItem ==
    /\ pc = "pop"
    /\ queue # <<>>
    /\ task' = Head(queue)
    /\ queue' = Tail(queue)
    /\ pendingRetry' = pendingRetry \ {Head(queue)}
    /\ pc' = "got"
    /\ UNCHANGED <<enqueued, running, norm, ctx, grounded, plan, exc, stages, outcome,
                   diag, faults, dbVars, use_gemini, firstPlan, vdbVars, gatewayVars>>

\* QueueConsumer.pop: BLPOP timed out, sleep(1) and poll again (inside pop).
PopTimeout ==
    /\ pc = "pop"
    /\ queue = <<>>
    /\ pc' = "pop_sleep"
    /\ UNCHANGED <<queue, enqueued, running, task, norm, ctx, grounded, plan, exc, stages,
                   outcome, diag, faults, dbVars, use_gemini, firstPlan, pendingRetry,
                   vdbVars, gatewayVars>>

PopRetry ==
    /\ pc = "pop_sleep"
    /\ pc' = "pop"
    /\ UNCHANGED <<queue, enqueued, running, task, norm, ctx, grounded, plan, exc, stages,
                   outcome, diag, faults, dbVars, use_gemini, firstPlan, pendingRetry,
                   vdbVars, gatewayVars>>

\* worker_loop after pop: "if not task: sleep(1); continue", then
\* task.get('request_id') (raises on a non-dict task, caught by the loop's
\* except) and the call of process_trip_request.
Dispatch ==
    /\ pc = "got"
    /\ \/ /\ task.kind = "empty"
          /\ pc' = "loop"
          /\ UNCHANGED <<norm, ctx, grounded, plan, exc, stages, outcome, diag, faults,
                         pendingRetry>>
       \/ /\ task.kind = "str"
          /\ pc' = "backoff"
          /\ pendingRetry' = pendingRetry \cup {task}
          /\ UNCHANGED <<norm, ctx, grounded, plan, exc, stages, outcome, diag, faults>>
       \/ /\ task.kind = "dict"
          /\ pc' = "normalize"
          /\ norm' = NoNorm
          /\ ctx' = NoCtx
          /\ grounded' = NoGrounded
          /\ plan' = NoPlan
          /\ exc' = "none"
          /\ stages' = <<>>
          /\ outcome' = "running"
          /\ diag' = FALSE
          /\ faults' = {}
          /\ UNCHANGED pendingRetry
    /\ UNCHANGED <<queue, enqueued, running, task, dbVars, use_gemini, firstPlan, vdbVars, gatewayVars>>

\* The locals of a finished process_trip_request invocation are gone.
ResetInvocation ==
    /\ task' = NoTask
    /\ norm' = NoNorm
    /\ ctx' = NoCtx
    /\ grounded' = NoGrounded
    /\ plan' = NoPlan
    /\ exc' = "none"
    /\ stages' = <<>>
    /\ outcome' = "idle"
    /\ diag' = FALSE
    /\ faults' = {}

\* except Exception: ... await asyncio.sleep(5)
Backoff ==
    /\ pc = "backoff"
    /\ pc' = "loop"
    /\ ResetInvocation
    /\ UNCHANGED <<queue, enqueued, running, dbVars, use_gemini, firstPlan, pendingRetry,
                   vdbVars, gatewayVars>>

\* print("Request completed") and back to the loop test
Completed ==
    /\ pc = "returned"
    /\ pc' = "loop"
    /\ ResetInvocation
    /\ UNCHANGED <<queue, enqueued, running, dbVars, use_gemini, firstPlan, pendingRetry,
                   vdbVars, gatewayVars>>

\* ------------------------------------------------------ RequestHandler
\* RawRequest.model_validate: thread_id, message_id, request_id and content
\* are required strings; anything that is not a JSON object is rejected.
RawRequestValid(p) ==
    /\ p.kind = "dict"
    /\ p.thread_id # NoneS
    /\ p.message_id # NoneS
    /\ p.request_id # NoneS
    /\ p.content # NoneS

\* _compute_days without the clamp at 1
_compute_days_unclamped(start_d, end_d) ==
    IF start_d = <<>> \/ end_d = <<>> THEN <<>>
    ELSE <<end_d[1] - start_d[1]>>

\* _compute_days: None unless both dates are given, else max(1, end - start)
_compute_days(start_d, end_d) ==
    IF start_d = <<>> \/ end_d = <<>> THEN <<>>
    ELSE LET delta == end_d[1] - start_d[1]
         IN  IF delta > 0 THEN <<delta>> ELSE <<1>>

\* date.month of a day of the year 2025
MonthStarts == <<1, 32, 60, 91, 121, 152, 182, 213, 244, 274, 305, 335>>
MonthOf(d) ==
    CHOOSE m \in 1..12 : MonthStarts[m] <= d /\ (m = 12 \/ d < MonthStarts[m + 1])

\* _season_hint(start.month if start else None)
_season_hint(m) ==
    IF m = <<>> THEN NoneS
    ELSE IF m[1] \in {12, 1, 2} THEN "WINTER"
    ELSE IF m[1] \in {3, 4, 5} THEN "SPRING"
    ELSE IF m[1] \in {6, 7, 8} THEN "SUMMER"
    ELSE "FALL"

\* str.upper() on the difficulty labels of the model
Upper(x) ==
    CASE x = "easy" -> "EASY" [] x = "hard" -> "HARD" [] x = "moderate" -> "MODERATE"
      [] OTHER -> x

Max(a, b) == IF a >= b THEN a ELSE b

\* int(a / b) for a >= 0 and b # 0: the quotient truncated towards zero
TruncDiv(a, b) == IF b > 0 THEN a \div b ELSE 0 - (a \div (0 - b))

\* per_day without the clamp of days at 1
per_day_unguarded(hi, days) == Max(1, TruncDiv(hi, days))

\* per_day = max(1, int(hi / max(1, days)))
per_day(hi, days) == Max(1, TruncDiv(hi, Max(1, days)))

\* [x for x in xs if x in vocabulary]
Clamp(xs, vocabulary) == SelectSeq(xs, LAMBDA x : x \in vocabulary)

\* clamp_enums without the filter of trip_types
clamp_enums_trip_types_unfiltered(v) ==
    [v EXCEPT
       !.difficulty = IF v.difficulty.level # NoneS
                         /\ v.difficulty.level \notin SUPPORTED_DIFFICULTY
                      THEN [level |-> "EASY", effort_profile |-> "LOW"]
                      ELSE @,
       !.transport.allowed = Clamp(@, SUPPORTED_TRAVEL_MODES),
       !.lodging.types = Clamp(@, SUPPORTED_ACCOM),
       !.lodging.amenities_prefer = Clamp(@, SUPPORTED_AMENITIES)]

\* NormalizedMessage.clamp_enums: the lists are filtered by their vocabulary;
\* lvl = difficulty.get("level", "EASY"), and a level outside the vocabulary
\* resets the difficulty to EASY / LOW.
clamp_enums(v) ==
    [v EXCEPT
       !.trip_types = Clamp(@, SUPPORTED_TRIP_TYPES),
       !.difficulty = IF v.difficulty.level # NoneS
                         /\ v.difficulty.level \notin SUPPORTED_DIFFICULTY
                      THEN [level |-> "EASY", effort_profile |-> "LOW"]
                      ELSE @,
       !.transport.allowed = Clamp(@, SUPPORTED_TRAVEL_MODES),
       !.lodging.types = Clamp(@, SUPPORTED_ACCOM),
       !.lodging.amenities_prefer = Clamp(@, SUPPORTED_AMENITIES)]

\* the difficulty block of normalize: upper-cased label and effort profile
Difficulty(difficulty) ==
    IF difficulty = NoneS THEN [level |-> NoneS, effort_profile |-> NoneS]
    ELSE LET diff_level == Upper(difficulty)
         IN  [level |-> diff_level,
              effort_profile |-> IF diff_level = "EASY" THEN "LOW"
                                 ELSE IF diff_level \in {"MODERATE", "MEDIUM"} THEN "MEDIUM"
                                 ELSE "HIGH"]

\* the budget block of normalize
BudgetOf(band, days) ==
    IF band = NoneS THEN NoBudget
    ELSE IF band \notin DOMAIN BUDGET_BANDS
         THEN [present |-> TRUE, band |-> band, ceiling_total |-> <<>>, per_day |-> <<>>]
         ELSE LET hi == BUDGET_BANDS[band][2]
              IN  [present |-> TRUE, band |-> band, ceiling_total |-> <<hi>>,
                   per_day |-> IF days # <<>> /\ days[1] # 0
                               THEN <<per_day(hi, days[1])>> ELSE <<>>]

\* RequestHandler.normalize, for a payload that validates:
\*   days = _compute_days(start, end)
\*   if days is None and uf and uf.duration_days: days = uf.duration_days
\* and NormalizedMessage(...) runs clamp_enums on the constraints.
normalize(p) ==
    LET computed == _compute_days(p.start, p.end)
        days == IF computed = <<>> /\ p.duration_days # <<>> /\ p.duration_days[1] # 0
                THEN p.duration_days
                ELSE computed
        dest == p.destination
    IN  [set |-> TRUE,
         thread_id |-> p.thread_id,
         message_id |-> p.message_id,
         days |-> days,
         start |-> p.start,
         end |-> p.end,
         nights |-> days,
         season_hint |-> _season_hint(IF p.start = <<>> THEN <<>> ELSE <<MonthOf(p.start[1])>>),
         geoscope |-> [origin |-> p.origin,
                       destination |-> dest,
                       in_scope_only |-> dest.present /\ dest.region_code = DEFAULT_REGION_CODE,
                       out_of_scope |-> dest.present /\ dest.region_code # DEFAULT_REGION_CODE],
         constraints |-> clamp_enums(
             [trip_types |-> p.trip_types,
              difficulty |-> Difficulty(p.difficulty),
              transport |-> [allowed |-> p.travel_modes],
              lodging |-> [types |-> p.accommodation, amenities_prefer |-> p.amenities],
              budget |-> BudgetOf(p.budget_level, days)])]

\* ------------------------------------------------------------ db-service
MessageIds == { messages[i].id : i \in 1..Len(messages) }

\* Message.id default: a fresh uuid4
FreshId == "u" \o ToString(Len(messages) + 1)

\* Message.created_at default: datetime.utcnow, later than every stored row
utcnow ==
    1 + (IF messages = <<>> THEN 0
         ELSE CHOOSE c \in { messages[i].created_at : i \in 1..Len(messages) } :
                  \A j \in 1..Len(messages) : messages[j].created_at <= c)

\* list.sort(key=created_at) and ORDER BY created_at: ascending, rows of
\* equal created_at stay in the order they had (a stable sort)
SortByCreatedAt(rows) ==
    LET n == Len(rows)
        rank(i) == 1 + Cardinality({ j \in 1..n :
                         \/ rows[j].created_at < rows[i].created_at
                         \/ rows[j].created_at = rows[i].created_at /\ j < i })
    IN  IF \A i \in 1..(n - 1) : rows[i].created_at <= rows[i + 1].created_at
        THEN rows    \* already in order: a stable sort leaves it as it is
        ELSE [k \in 1..n |-> rows[CHOOSE i \in 1..n : rank(i) = k]]

\* NormalisedMessageRepository.create: INSERT into normalised_message, whose
\* primary key message_id is also a foreign key to messages.id.
NormalisedCreateOk(mid) == mid \notin normalised /\ mid \in MessageIds

\* MessageRepository.create: INSERT into messages, thread_id is a foreign
\* key to threads.id.
MessageCreateOk(tid) == tid \in threads

\* MessageRepository.get_by_thread: filter, order_by(created_at), offset, limit
FilterThread(rows, tid) == SelectSeq(rows, LAMBDA r : r.thread_id = tid)

\* the rows of the table are kept in their physical order; rows of equal
\* created_at come back in that order
get_by_thread_of(table, tid, skip, limit) ==
    LET all == SortByCreatedAt(FilterThread(table, tid))
        lo == skip + 1
        hi == IF skip + limit < Len(all) THEN skip + limit ELSE Len(all)
    IN  SubSeq(all, lo, hi)

get_by_thread(tid, skip, limit) == get_by_thread_of(messages, tid, skip, limit)

\* --------------------------------------------------------- ContextManager
\* normalized_msgs[-SHORT_WINDOW:]
LastN(s, n) == IF Len(s) <= n THEN s ELSE SubSeq(s, Len(s) - n + 1, Len(s))

\* int(md.group(1)) for the one- and two-digit strings of the model
IntOf(tok) ==
    CASE tok = "0" -> 0 [] tok = "1" -> 1 [] tok = "2" -> 2 [] tok = "3" -> 3
      [] tok = "4" -> 4 [] tok = "5" -> 5 [] tok = "10" -> 10
IsNumber(tok) == tok \in {"0", "1", "2", "3", "4", "5", "10"}

\* _DURATION_DAYS_RE.search(t): the leftmost number followed by day/days
DurationMatches(t) ==
    { i \in 1..(Len(t) - 1) : IsNumber(t[i]) /\ t[i + 1] \in {"day", "days"} }

\* the day-trip signals: same night | same day | day trip
DayTripSignal(t) ==
    \E i \in 1..(Len(t) - 1) :
        \/ t[i] = "same" /\ t[i + 1] \in {"night", "day"}
        \/ t[i] = "day" /\ t[i + 1] = "trip"

Min(S) == CHOOSE x \in S : \A y \in S : x <= y

\* _derive_anchors_from_chat, the duration_days anchor: later user turns
\* overwrite earlier ones.
\* The turns are folded half by half, the first half being evaluated
\* before the second, so that long histories evaluate at logarithmic depth.
RECURSIVE DeriveDuration(_, _)
DeriveDuration(history, acc) ==
    IF history = <<>> THEN acc
    ELSE IF Len(history) = 1
    THEN LET m == Head(history)
             t == m.text
             a1 == IF DurationMatches(t) # {} THEN <<IntOf(t[Min(DurationMatches(t))])>> ELSE acc
             a2 == IF DayTripSignal(t) THEN <<1>> ELSE a1
         IN  IF m.role # "user" \/ t = <<>> THEN acc ELSE a2
    ELSE LET half == Len(history) \div 2
             first == DeriveDuration(SubSeq(history, 1, half), acc)
         IN  IF first = first
             THEN DeriveDuration(SubSeq(history, half + 1, Len(history)), first)
             ELSE acc

\* ---- the words of a chat text
\* str.lower() on the capitalised words of the model
Lower(tok) ==
    CASE tok = "Reno" -> "reno" [] tok = "Tahoe" -> "tahoe" [] tok = "Truckee" -> "truckee"
      [] tok = "Fremont" -> "fremont" [] tok = "Napa" -> "napa" [] OTHER -> tok
LowerSeq(name) == [i \in 1..Len(name) |-> Lower(name[i])]

PunctTokens == {",", ".", "!", "?"}
\* "7am": the hour, the minutes and am/pm of a clock time
TimeTokens == {"7am", "12am", "12pm", "9pm"}
TimeOf(tok) ==
    CASE tok = "7am" -> <<7, 0, "am">> [] tok = "12am" -> <<12, 0, "am">>
      [] tok = "12pm" -> <<12, 0, "pm">> [] tok = "9pm" -> <<9, 0, "pm">>
\* a token matched by [A-Za-z]+ (the words of the model have two letters or more)
IsWord(tok) == tok \notin PunctTokens /\ tok \notin TimeTokens /\ ~IsNumber(tok)

_BAD_TO_TARGETS == {"leave", "go", "come", "drive", "driving", "depart", "return", "head",
                    "start", "back"}
_TRAILING_JUNK == {"only", "trip", "day", "one", "same"}
TypoTable == {"trukkey", "trukee", "trukie", "truckey"}

\* two consecutive words at position i
PairAt(t, i, w1, w2) == i + 1 <= Len(t) /\ Lower(t[i]) = w1 /\ Lower(t[i + 1]) = w2

\* _STOP_AFTER_PLACE holds before position j: end of text, punctuation, or a
\* blank followed by one of the stop phrases
_STOP_AFTER_PLACE(t, j) ==
    \/ j = Len(t) + 1
    \/ /\ j <= Len(t)
       /\ \/ t[j] \in PunctTokens
          \/ Lower(t[j]) \in {"only", "and", "leave", "return"}
          \/ PairAt(t, j, "one", "day") \/ PairAt(t, j, "same", "day")
          \/ PairAt(t, j, "day", "trip") \/ PairAt(t, j, "i", "want")
          \/ PairAt(t, j, "come", "back")

\* ([A-Za-z][A-Za-z\s\.-]{1,60}?) followed by _STOP_AFTER_PLACE, the group
\* starting at position i: the positions right after the group, for every
\* way the group can end.  The lazy quantifier tries them in increasing order.
CaptureEnds(t, i) ==
    { j \in (i + 1)..(Len(t) + 1) :
        /\ \A k \in i..(j - 1) : IsWord(t[k])
        /\ _STOP_AFTER_PLACE(t, j) }

\* positions k >= from where "\bkw\s+(place)(?=stop)" matches
MatchStarts(t, kw, from) ==
    { k \in from..(Len(t) - 1) : Lower(t[k]) = kw /\ CaptureEnds(t, k + 1) # {} }

\* group(1) of the leftmost match of _FROM_ONLY_RE, _TO_ONLY_RE, _IN_ONLY_RE,
\* _FOR_ONLY_RE, _VISIT_RE (kw = from, to, in, for, visit); <<>> if no match
Search(t, kw) ==
    IF MatchStarts(t, kw, 1) = {} THEN <<>>
    ELSE LET k == Min(MatchStarts(t, kw, 1))
         IN  SubSeq(t, k + 1, Min(CaptureEnds(t, k + 1)) - 1)

\* _TO_FROM_RE (kw1 = to, kw2 = from) and _FROM_TO_RE (kw1 = from, kw2 = to):
\* kw1 place1 (?=stop) \s+ kw2 place2 (?=stop).  <<k, j, l>>: kw1 at k, kw2 at
\* j right after place1, place2 ending before l.  The lookahead after place1
\* and the keyword kw2 have to hold at the same position j.
PairMatches(t, kw1, kw2) ==
    { m \in (1..Len(t)) \X (1..Len(t)) \X (1..(Len(t) + 1)) :
        /\ Lower(t[m[1]]) = kw1
        /\ m[2] \in CaptureEnds(t, m[1] + 1)
        /\ Lower(t[m[2]]) = kw2
        /\ m[3] \in CaptureEnds(t, m[2] + 1) }

\* the match re.search reports: leftmost start, shortest groups
FirstPair(ms) ==
    CHOOSE m \in ms : \A n \in ms :
        \/ m[1] < n[1]
        \/ m[1] = n[1] /\ m[2] < n[2]
        \/ m[1] = n[1] /\ m[2] = n[2] /\ m[3] <= n[3]

\* _clean_place: strip, drop the trailing junk words, correct the known typos
RECURSIVE StripJunk(_)
StripJunk(parts) ==
    IF parts # <<>> /\ Lower(parts[Len(parts)]) \in _TRAILING_JUNK
    THEN StripJunk(SubSeq(parts, 1, Len(parts) - 1))
    ELSE parts

_clean_place(place) ==
    LET parts == StripJunk(place)
    IN  IF Len(parts) = 1 /\ Lower(parts[1]) \in TypoTable THEN <<"Truckee">> ELSE parts

\* _INVALID_DEST_SNIPPETS.search(nl)
_INVALID_DEST_SNIPPETS(name) ==
    \E i \in 1..Len(name) :
        \/ Lower(name[i]) \in {"only", "leave", "return"}
        \/ PairAt(name, i, "one", "day") \/ PairAt(name, i, "same", "day")
        \/ PairAt(name, i, "day", "trip") \/ PairAt(name, i, "come", "back")

_is_valid_place_name(name) ==
    /\ name # <<>>
    /\ ~(Len(name) = 1 /\ Lower(name[1]) \in _BAD_TO_TARGETS)
    /\ ~_INVALID_DEST_SNIPPETS(name)
    /\ Len(name) <= 6

\* for m_to in _TO_ONLY_RE.finditer(t): the first valid cleaned candidate,
\* <<>> if there is none; the next match is looked for after the previous one
RECURSIVE FirstValidTo(_, _)
FirstValidTo(t, from) ==
    IF MatchStarts(t, "to", from) = {} THEN <<>>
    ELSE LET k == Min(MatchStarts(t, "to", from))
             j == Min(CaptureEnds(t, k + 1))
             cand == _clean_place(SubSeq(t, k + 1, j - 1))
         IN  IF _is_valid_place_name(cand) THEN cand ELSE FirstValidTo(t, j)

\* a candidate replaces the anchor when it is a valid place name
Fill(group, old) ==
    IF group # <<>> /\ _is_valid_place_name(_clean_place(group))
    THEN _clean_place(group) ELSE old

\* the route extraction of one user text; acc holds origin and destination
\* as left by the earlier turns
RouteStep(acc, t) ==
    LET tf == PairMatches(t, "to", "from")
        ft == PairMatches(t, "from", "to")
    IN  IF tf # {}
        THEN LET m == FirstPair(tf)
             IN  [destination |-> Fill(SubSeq(t, m[1] + 1, m[2] - 1), acc.destination),
                  origin |-> Fill(SubSeq(t, m[2] + 1, m[3] - 1), acc.origin)]
        ELSE IF ft # {}
        THEN LET m == FirstPair(ft)
             IN  [origin |-> Fill(SubSeq(t, m[1] + 1, m[2] - 1), acc.origin),
                  destination |-> Fill(SubSeq(t, m[2] + 1, m[3] - 1), acc.destination)]
        ELSE LET origin == Fill(Search(t, "from"), acc.origin)
                 to == FirstValidTo(t, 1)
                 destination == IF to # <<>> THEN to ELSE acc.destination
                 \* if not destination: "in X", elif "for X", elif "visit X"
                 weak == IF Search(t, "in") # <<>> THEN Search(t, "in")
                         ELSE IF Search(t, "for") # <<>> THEN Search(t, "for")
                         ELSE Search(t, "visit")
             IN  [origin |-> origin,
                  destination |-> IF destination # <<>> THEN destination
                                  ELSE Fill(weak, destination)]

\* for m in history: ... over the user turns with text
RECURSIVE DeriveRoute(_, _)
DeriveRoute(history, acc) ==
    IF history = <<>> THEN acc
    ELSE IF Len(history) = 1
    THEN LET m == Head(history)
         IN  IF m.role # "user" \/ m.text = <<>> THEN acc ELSE RouteStep(acc, m.text)
    ELSE LET half == Len(history) \div 2
             first == DeriveRoute(SubSeq(history, 1, half), acc)
         IN  IF first = first
             THEN DeriveRoute(SubSeq(history, half + 1, Len(history)), first)
             ELSE acc

\* by car | drive | driving | road trip
TravelModeSignal(t) ==
    \E i \in 1..Len(t) :
        \/ Lower(t[i]) \in {"drive", "driving", "roadtrip"}
        \/ PairAt(t, i, "by", "car") \/ PairAt(t, i, "road", "trip")

\* _TIME_RE: leave|leaving|depart|departing, an optional "at", a clock time
TimeMatches(t) ==
    { i \in 1..Len(t) :
        /\ Lower(t[i]) \in {"leave", "leaving", "depart", "departing"}
        /\ \/ i + 1 <= Len(t) /\ t[i + 1] \in TimeTokens
           \/ i + 2 <= Len(t) /\ Lower(t[i + 1]) = "at" /\ t[i + 2] \in TimeTokens }

Pad2(n) == IF n < 10 THEN "0" \o ToString(n) ELSE ToString(n)

_hhmm_from_match(hour, minute, ampm) ==
    LET h == IF ampm = "pm" /\ hour # 12 THEN hour + 12
             ELSE IF ampm = "am" /\ hour = 12 THEN 0
             ELSE hour
    IN  Pad2(h) \o ":" \o Pad2(minute)

DepartOf(t) ==
    LET i == Min(TimeMatches(t))
        tm == TimeOf(IF t[i + 1] \in TimeTokens THEN t[i + 1] ELSE t[i + 2])
    IN  _hhmm_from_match(tm[1], tm[2], tm[3])

\* travel_mode, depart_time_hhmm and return_same_day over the user turns
RECURSIVE DeriveFlags(_, _)
DeriveFlags(history, acc) ==
    IF history = <<>> THEN acc
    ELSE IF Len(history) = 1
    THEN LET m == Head(history)
             t == m.text
         IN  IF m.role # "user" \/ t = <<>>
             THEN acc
             ELSE [travel_mode |-> IF TravelModeSignal(t) THEN "CAR" ELSE acc.travel_mode,
                   return_same_day |-> IF DayTripSignal(t) THEN <<TRUE>>
                                       ELSE acc.return_same_day,
                   depart_time_hhmm |-> IF TimeMatches(t) # {} THEN DepartOf(t)
                                        ELSE acc.depart_time_hhmm]
    ELSE LET half == Len(history) \div 2
             first == DeriveFlags(SubSeq(history, 1, half), acc)
         IN  IF first = first
             THEN DeriveFlags(SubSeq(history, half + 1, Len(history)), first)
             ELSE acc

_derive_anchors_from_chat(history) ==
    LET route == DeriveRoute(history, [origin |-> <<>>, destination |-> <<>>])
        flags == DeriveFlags(history, [travel_mode |-> NoneS, return_same_day |-> <<>>,
                                       depart_time_hhmm |-> NoneS])
    IN  [origin_name |-> route.origin,
         destination_name |-> route.destination,
         duration_days |-> DeriveDuration(history, <<>>),
         depart_time_hhmm |-> flags.depart_time_hhmm,
         return_same_day |-> flags.return_same_day,
         travel_mode |-> flags.travel_mode]

\* last_user = max(user_messages, key=_created_at_key)
RECURSIVE LastUser(_)
LastUser(rows) ==
    IF rows = <<>> THEN <<>>
    ELSE IF rows[Len(rows)].role = "user"
         THEN <<rows[Len(rows)]>>
         ELSE LastUser(SubSeq(rows, 1, Len(rows) - 1))

\* the keys of to_dict(NormalizedMessage)
NormalizedMessageKeys ==
    {"type", "version", "thread_id", "message_id", "time", "geoscope", "constraints"}

\* _nm_text(nm): the first non-blank string among the keys text, raw_text,
\* query, user_query of nm, then of nm.content, then nm.content itself; the
\* empty text if there is none.  A key the normalized message does not have
\* reads as None.
_nm_text(nm) ==
    IF {"text", "raw_text", "query", "user_query", "content"} \cap NormalizedMessageKeys = {}
    THEN <<>>
    ELSE <<nm.content>>

\* DBServiceClient.upsert_memory(*, thread_id, message_id, text, role, embedding, extra_meta):
\* embedding is a required keyword; a call without it raises TypeError.
upsert_memory(has_embedding) == IF has_embedding THEN "sent" ELSE "TypeError"

\* DBServiceClient.query_memories(*, thread_id, query_embedding, top_k):
\* a call with query_text= raises TypeError.
query_memories(has_query_embedding) == IF has_query_embedding THEN "sent" ELSE "TypeError"

\* geoscope origin / destination: a valid derived name replaces an existing
\* place whose name is not a valid place name (display_name is the name)
BackFill(existing, derived_name) ==
    IF _is_valid_place_name(derived_name) /\ ~_is_valid_place_name(existing.name)
    THEN MkPlace(derived_name, NoneS)
    ELSE existing

\* if destination == origin, drop destination
DropLoop(origin, destination) ==
    IF /\ origin.present /\ destination.present
       /\ origin.name # <<>> /\ destination.name # <<>>
       /\ LowerSeq(origin.name) = LowerSeq(destination.name)
    THEN NoPlace
    ELSE destination

\* ContextManager.build_context(normalized_message), the part after the
\* history fetch and the anchor extraction; histUp says whether the
\* history collaborator answered.  Returns the context pack and the
\* collaborator calls that raised and were swallowed; escaped says whether
\* an exception leaves build_context.
ContextPack(nm, histUp, history, derived) ==
    LET recent == LastN(history, SHORT_WINDOW_MSG_COUNT)
        \* fallback if the history is empty: a user turn synthesized from the
        \* text and id of the normalized message, if it has both
        last_user == IF LastUser(history) # <<>> THEN LastUser(history)
                     ELSE IF nm.message_id # NoneS /\ _nm_text(nm) # <<>>
                     THEN <<MkRow(nm.message_id, nm.thread_id, "user", _nm_text(nm), 0)>>
                     ELSE <<>>
        \* fill transport.allowed if empty and CAR was detected
        allowed == IF nm.constraints.transport.allowed = <<>> /\ derived.travel_mode = "CAR"
                   THEN <<"CAR">> ELSE nm.constraints.transport.allowed
        days == IF nm.days = <<>> /\ derived.duration_days # <<>>
                THEN derived.duration_days ELSE nm.days
        \* the time block of a NormalizedMessage has no depart_time_local and
        \* no return_same_day
        depart_time_local == derived.depart_time_hhmm
        return_same_day == derived.return_same_day
        origin == BackFill(nm.geoscope.origin, derived.origin_name)
        destination == BackFill(nm.geoscope.destination, derived.destination_name)
        upsertTried == last_user # <<>> /\ last_user[1].text # <<>>
        upsertRes == IF upsertTried THEN upsert_memory(FALSE) ELSE "skipped"
        queryRes == query_memories(FALSE)
    IN  [pack |-> [set |-> TRUE, thread_id |-> nm.thread_id, message_id |-> nm.message_id,
                   days |-> days,
                   depart_time_local |-> depart_time_local,
                   return_same_day |-> return_same_day,
                   geoscope |-> [nm.geoscope EXCEPT
                                   !.origin = origin,
                                   !.destination = DropLoop(origin, destination)],
                   constraints |-> [nm.constraints EXCEPT !.transport.allowed = allowed],
                   recent |-> recent, history |-> history,
                   last_user |-> last_user,
                   long_term_memories |-> <<>>,
                   derived |-> derived],
         raised |-> (IF histUp THEN {} ELSE {"history"})
                    \cup (IF upsertRes = "TypeError" THEN {"upsert"} ELSE {})
                    \cup (IF queryRes = "TypeError" THEN {"query"} ELSE {}),
         \* the POST /vdb/memories request that left the worker, if any
         upsert |-> IF upsertRes = "sent"
                    THEN <<[thread_id |-> nm.thread_id, message_id |-> last_user[1].id,
                            text |-> last_user[1].text]>>
                    ELSE <<>>,
         escaped |-> FALSE]

\* build_context without the try/except around db.get_thread_messages
build_context_history_unguarded(nm, histUp) ==
    [pack |-> NoCtx, raised |-> IF histUp THEN {} ELSE {"history"}, upsert |-> <<>>,
     escaped |-> ~histUp]

\* build_context: the history rows are fetched once and the anchors derived
\* once from them (derived = _derive_anchors_from_chat(history))
\* build_context on the rows msgs the history collaborator returned:
\* normalized_msgs.sort(key=_created_at_key), oldest to newest
build_context_from(nm, histUp, msgs) ==
    LET history == SortByCreatedAt(msgs)
    IN  ContextPack(nm, histUp, history, _derive_anchors_from_chat(history))

build_context(nm, histUp) ==
    build_context_from(nm, histUp,
                       IF histUp THEN get_by_thread(nm.thread_id, 0, STATE_WINDOW) ELSE <<>>)

\* ----------------------------------------------------------- DataRetriever
\* _derive_lodging_from_context: two synthesized candidates
base_lodging == <<"lodging-1", "lodging-2">>
\* the description of a synthesized candidate, as words
LodgingDescription(id) ==
    IF id = "lodging-1" THEN <<"Simple", "scenic", "option", "near", "key", "attractions">>
    ELSE <<"Budget-friendly", "with", "quick", "access", "to", "popular", "viewpoints">>
WikiPois == <<"wiki-1", "wiki-2", "wiki-3", "wiki-4">>

\* DataRetriever.retrieve: every tool runs inside try/except; a failed tool
\* leaves its bucket at the initial value.
retrieve(pack, weatherUp, poisUp) ==
    [grounded |-> [set |-> TRUE,
                   retrieved_data |-> [weather |-> weatherUp,
                                       pois |-> IF poisUp THEN WikiPois ELSE <<>>,
                                       lodging |-> base_lodging]],
     raised |-> (IF weatherUp THEN {} ELSE {"weather"})
                \cup (IF poisUp THEN {} ELSE {"pois"}),
     escaped |-> FALSE]

\* top-level keys of grounded_context = {**context_pack, "retrieved_data": retrieved}
GroundedKeys ==
    {"type", "version", "thread_id", "message_id", "normalized_ref", "recent_messages",
     "used_window_message_ids", "window_summary", "last_user_message",
     "long_term_memories", "used_memory_ids", "constraints", "geoscope", "time",
     "api_intents", "cache_keys", "applied_fills", "retrieved_data"}

\* --------------------------------------------------------------- LLMModule
MkDay(n, acts) == [day |-> n, activities |-> acts]

IdentityKeys == {"type", "version", "thread_id", "message_id", "destination"}
PlanKeys == IdentityKeys \cup {"days", "trip_types", "difficulty", "budget_band", "lodging",
                               "weather_hint", "window_summary", "itinerary"}

\* What the external model can answer.  kind:
\*   raise            generate_content raised (network, quota, ...)
\*   timeout          the call timed out
\*   no_text          response without text and without parts
\*   unparsable       text that json.loads rejects
\*   json_nonobject   JSON that is not an object (list, number, string)
\*   object_other     object without "reply" whose type is not trip_plan
\*   reply_nonobject  {"reply": x} with x not an object
\*   reply            {"reply": {...}}
\*   bare             {"type": "trip_plan", ...}
\* keys/days/itinerary/thread_id describe the object of reply and bare.
MkResp(kind, keys, days, itin) ==
    [kind |-> kind, keys |-> keys, days |-> days, itinerary |-> itin, thread_id |-> "tX",
     lodging |-> NoLodging]

FailingKinds == {"raise", "timeout", "no_text", "unparsable", "json_nonobject",
                 "object_other", "reply_nonobject"}

PlanBodies(base) ==
    { MkResp("x", base \cup {"days", "itinerary"}, 2, <<MkDay(1, <<>>), MkDay(2, <<>>)>>),
      MkResp("x", base \cup {"days", "itinerary", "thread_id"}, 0, <<>>),
      MkResp("x", base \cup {"days", "itinerary"}, 2, <<>>),
      MkResp("x", base \cup {"days", "itinerary"}, 2, <<MkDay(2, <<>>), MkDay(1, <<>>)>>),
      MkResp("x", base \cup {"days"}, 1, <<>>),
      MkResp("x", base, 0, <<>>),
      \* with a lodging object whose notes do not / do mention parking
      [MkResp("x", base \cup {"days", "itinerary", "lodging"}, 1, <<MkDay(1, <<>>)>>)
          EXCEPT !.lodging = [present |-> TRUE, notes |-> <<"quiet", "inn">>]],
      [MkResp("x", base \cup {"days", "itinerary", "lodging"}, 1, <<MkDay(1, <<>>)>>)
          EXCEPT !.lodging = [present |-> TRUE, notes |-> <<"free", "parking">>]] }

GeminiResponses ==
    { MkResp(k, {}, 0, <<>>) : k \in FailingKinds }
    \cup { [b EXCEPT !.kind = "reply"] : b \in PlanBodies({}) }
    \cup { [b EXCEPT !.kind = "bare"] : b \in PlanBodies({"type"}) }

\* LLMModule._call_gemini: raised says whether the call ended in an exception.
\* A parsed reply / bare object is returned after setdefault of the identity
\* fields; nothing else of the object is inspected.
_call_gemini(resp, pack) ==
    [raised |-> resp.kind \in FailingKinds,
     plan |-> [src |-> "gemini",
               keys |-> resp.keys \cup IdentityKeys,
               days |-> resp.days,
               itinerary |-> resp.itinerary,
               thread_id |-> IF "thread_id" \in resp.keys THEN resp.thread_id
                             ELSE pack.thread_id,
               lodging |-> resp.lodging]]

\* pois[start:end]
Slice(s, start, end) ==
    LET hi == IF end < Len(s) THEN end ELSE Len(s)
    IN  IF start >= hi THEN <<>> ELSE SubSeq(s, start + 1, hi)

max_pois_per_day == 3

\* LLMModule._rule_based_plan
_rule_based_plan(g, pack) ==
    LET \* days = time_block.get("days") or constraints.get("duration_days") or 3
        days == IF pack.days # <<>> /\ pack.days[1] # 0 THEN pack.days[1] ELSE DEFAULT_DAYS
        \* grounded_context.get("pois") or []
        pois == IF "pois" \in GroundedKeys THEN g.retrieved_data.pois ELSE <<>>
        pois_for_plan == Slice(pois, 0, days * max_pois_per_day)
        \* grounded_context.get("lodging") or []
        lodging == IF "lodging" \in GroundedKeys THEN g.retrieved_data.lodging ELSE <<>>
        \* notes = primary_lodging.get("notes") or primary_lodging.get("description") or ...
        lodging_summary == IF lodging = <<>> THEN NoLodging
                           ELSE [present |-> TRUE, notes |-> LodgingDescription(lodging[1])]
    IN  [src |-> "fallback",
         keys |-> PlanKeys,
         days |-> days,
         itinerary |-> [i \in 1..days |->
                          MkDay(i, Slice(pois_for_plan, (i - 1) * max_pois_per_day,
                                         (i - 1) * max_pois_per_day + max_pois_per_day))],
         thread_id |-> pack.thread_id,
         lodging |-> lodging_summary]

\* generate_plan without the try/except around _call_gemini
generate_plan_unguarded(useModel, resp, g, pack) ==
    LET r == _call_gemini(resp, pack)
    IN  [plan |-> r.plan, escaped |-> useModel /\ r.raised]

\* LLMModule.generate_plan; useModel is use_gemini and _gemini_model is not None.
\* escaped says whether an exception leaves generate_plan.
generate_plan(useModel, resp, g, pack) ==
    LET r == _call_gemini(resp, pack)
    IN  IF useModel /\ ~r.raised
        THEN [plan |-> r.plan, escaped |-> FALSE]
        ELSE [plan |-> _rule_based_plan(g, pack), escaped |-> FALSE]

\* ------------------------------------------------- db-service vector store
\* Chroma collection: delete(ids) removes the records with these ids,
\* add_documents inserts one record.
StoreDelete(store, id) == { r \in store : r.id # id }
StoreAdd(store, id, text) == store \cup { [id |-> id, text |-> text] }

\* upsert_message without the delete of the existing id
upsert_message_no_delete(store, thread_id, message_id, text) ==
    IF text = "" THEN store
    ELSE StoreAdd(store, DocId(thread_id, message_id), text)

\* VectorDBClient.upsert_message
upsert_message(store, thread_id, message_id, text) ==
    IF text = "" THEN store
    ELSE LET doc_id == DocId(thread_id, message_id)
         IN  StoreAdd(StoreDelete(store, doc_id), doc_id, text)

\* ------------------------------------------- TripOrchestrator, stage by stage
envVars == <<queue, enqueued, running, use_gemini, vdbVars, gatewayVars>>

\* Step 1: normalized = await self.request_handler.normalize(raw_request)
Normalize ==
    /\ pc = "normalize"
    /\ stages' = Append(stages, "normalize")
    /\ IF RawRequestValid(task)
       THEN /\ norm' = normalize(task)
            /\ pc' = "persist_norm"
            /\ exc' = exc
       ELSE /\ exc' = "normalize"
            /\ pc' = "handler"
            /\ norm' = norm
    /\ UNCHANGED <<task, ctx, grounded, plan, outcome, diag, faults, dbVars, firstPlan,
                   pendingRetry, envVars>>

\* create_normalised_message without raise_for_status: a failed insert is
\* not noticed and the pipeline goes on
PersistNormalised_unchecked ==
    /\ pc = "persist_norm"
    /\ stages' = Append(stages, "persist_norm")
    /\ \E up \in BOOLEAN :
          /\ faults' = IF up THEN faults ELSE faults \cup {"norm_db"}
          /\ normalised' = IF up /\ NormalisedCreateOk(norm.message_id)
                           THEN normalised \cup {norm.message_id} ELSE normalised
          /\ pc' = "build_context"
          /\ exc' = exc
    /\ UNCHANGED <<task, norm, ctx, grounded, plan, outcome, diag, threads, messages,
                   firstPlan, pendingRetry, envVars>>

\* await self.db_client.create_normalised_message(...): POST /normalised_messages,
\* raise_for_status turns a failed insert or an outage into an exception.
PersistNormalised ==
    /\ pc = "persist_norm"
    /\ stages' = Append(stages, "persist_norm")
    /\ \E up \in BOOLEAN :
          /\ faults' = IF up THEN faults ELSE faults \cup {"norm_db"}
          /\ IF up /\ NormalisedCreateOk(norm.message_id)
             THEN /\ normalised' = normalised \cup {norm.message_id}
                  /\ pc' = "build_context"
                  /\ exc' = exc
             ELSE /\ normalised' = normalised
                  /\ exc' = "persist_norm"
                  /\ pc' = "handler"
    /\ UNCHANGED <<task, norm, ctx, grounded, plan, outcome, diag, threads, messages,
                   firstPlan, pendingRetry, envVars>>

\* Step 2: context_pack = await self.context_manager.build_context(normalized)
BuildContext ==
    /\ pc = "build_context"
    /\ stages' = Append(stages, "build_context")
    /\ \E histUp \in BOOLEAN :
          \E r \in {build_context(norm, histUp)} :
              /\ faults' = faults \cup r.raised
              /\ IF r.escaped
                 THEN /\ exc' = "build_context"
                      /\ pc' = "handler"
                      /\ ctx' = ctx
                 ELSE /\ ctx' = r.pack
                      /\ pc' = "retrieve"
                      /\ exc' = exc
              \* db-service applies the upsert request the worker sent
              /\ memStore' = IF r.upsert = <<>> THEN memStore
                             ELSE upsert_message(memStore, r.upsert[1].thread_id,
                                                 r.upsert[1].message_id, r.upsert[1].text)
    /\ UNCHANGED <<task, norm, grounded, plan, outcome, diag, dbVars, firstPlan,
                   pendingRetry, queue, enqueued, running, use_gemini, upserts, lastUpsert,
                   gatewayVars>>

\* Step 3: grounded_context = await self.data_retriever.retrieve(context_pack)
Retrieve ==
    /\ pc = "retrieve"
    /\ stages' = Append(stages, "retrieve")
    /\ \E weatherUp \in BOOLEAN, poisUp \in BOOLEAN :
          LET r == retrieve(ctx, weatherUp, poisUp)
          IN  /\ faults' = faults \cup r.raised
              /\ IF r.escaped
                 THEN /\ exc' = "retrieve"
                      /\ pc' = "handler"
                      /\ grounded' = grounded
                 ELSE /\ grounded' = r.grounded
                      /\ pc' = "generate"
                      /\ exc' = exc
    /\ UNCHANGED <<task, norm, ctx, plan, outcome, diag, dbVars, firstPlan,
                   pendingRetry, envVars>>

\* Step 5: trip_response = await self.llm_module.generate_plan(grounded_context, context_pack)
Generate ==
    /\ pc = "generate"
    /\ stages' = Append(stages, "generate")
    /\ \E resp \in (IF use_gemini THEN GeminiResponses ELSE {MkResp("raise", {}, 0, <<>>)}) :
          LET r == generate_plan(use_gemini, resp, grounded, ctx)
          IN  /\ faults' = IF use_gemini /\ resp.kind \in FailingKinds
                           THEN faults \cup {resp.kind} ELSE faults
              /\ IF r.escaped
                 THEN /\ exc' = "generate"
                      /\ pc' = "handler"
                      /\ plan' = plan
                 ELSE /\ plan' = r.plan
                      /\ pc' = "persist_assistant"
                      /\ exc' = exc
    /\ UNCHANGED <<task, norm, ctx, grounded, outcome, diag, dbVars, firstPlan,
                   pendingRetry, envVars>>

\* Step 6: if thread_id: await self.db_client.create_message(role="assistant"); return trip_response
PersistAssistant ==
    /\ pc = "persist_assistant"
    /\ IF ctx.thread_id = NoneS
       THEN /\ outcome' = "plan"
            /\ pc' = "returned"
            /\ firstPlan' = firstPlan \cup {task}
            /\ UNCHANGED <<stages, exc, faults, messages>>
       ELSE /\ stages' = Append(stages, "persist_assistant")
            /\ \E up \in BOOLEAN :
                  /\ faults' = IF up THEN faults ELSE faults \cup {"assistant_db"}
                  /\ IF up /\ MessageCreateOk(ctx.thread_id)
                     THEN /\ messages' = Append(messages,
                                            MkRow(FreshId, ctx.thread_id, "assistant", <<>>, utcnow))
                          /\ outcome' = "plan"
                          /\ pc' = "returned"
                          /\ firstPlan' = firstPlan \cup {task}
                          /\ exc' = exc
                     ELSE /\ exc' = "persist_assistant"
                          /\ pc' = "handler"
                          /\ UNCHANGED <<messages, outcome, firstPlan>>
    /\ UNCHANGED <<task, norm, ctx, grounded, plan, diag, threads, normalised,
                   pendingRetry, envVars>>

\* except Exception as e:
\*     try:
\*         thread_id = raw_request.get("thread_id"); ...
\*         if thread_id: await self.db_client.create_message(role="system", ...)
\*     except Exception as log_err:
\*         print(...)
\*         raise
\* The only raise is the one inside the inner except: when the inner try
\* completes, the function falls off its end and returns None.
Handler ==
    /\ pc = "handler"
    /\ IF task.thread_id = NoneS
       THEN /\ outcome' = "returned_none"
            /\ pc' = "returned"
            /\ UNCHANGED <<messages, diag, faults, pendingRetry>>
       ELSE \E up \in BOOLEAN :
               /\ faults' = IF up THEN faults ELSE faults \cup {"diag_db"}
               /\ IF up /\ MessageCreateOk(task.thread_id)
                  THEN /\ messages' = Append(messages,
                                         MkRow(FreshId, task.thread_id, "system", <<>>, utcnow))
                       /\ diag' = TRUE
                       /\ outcome' = "returned_none"
                       /\ pc' = "returned"
                       /\ UNCHANGED pendingRetry
                  ELSE /\ outcome' = "raised"
                       /\ pc' = "backoff"
                       /\ pendingRetry' = pendingRetry \cup {task}
                       /\ UNCHANGED <<messages, diag>>
    /\ UNCHANGED <<task, norm, ctx, grounded, plan, exc, stages, threads, normalised,
                   firstPlan, envVars>>

LastTwo(s) == IF Len(s) <= 2 THEN s ELSE SubSeq(s, Len(s) - 1, Len(s))

\* POST /vdb/memories
upsert_memory_route(tid, mid, text) ==
    /\ upserts < MaxUpserts
    /\ upserts' = upserts + 1
    /\ memStore' = upsert_message(memStore, tid, mid, text)
    /\ lastUpsert' = [lastUpsert EXCEPT ![DocId(tid, mid)] = LastTwo(Append(@, text))]
    /\ UNCHANGED <<queue, enqueued, running, workerVars, dbVars, use_gemini, firstPlan,
                   pendingRetry, gatewayVars>>

\* ------------------------------------------------- gateway GET /trip/latest
\* sorted(assistants, key=created_at, reverse=True)[0]: the first of the
\* rows with the greatest created_at (the sort is stable)
SortedLatest(assistants) ==
    LET n == Len(assistants)
        first == CHOOSE i \in 1..n :
                    /\ \A j \in 1..n : assistants[j].created_at <= assistants[i].created_at
                    /\ \A j \in 1..(i - 1) : assistants[j].created_at < assistants[i].created_at
    IN  assistants[first]

get_latest_reply(thread_id, after_message_id) ==
    LET msgs == get_by_thread(thread_id, 0, LATEST_LIMIT)
        assistants == SelectSeq(msgs, LAMBDA m : m.role = "assistant")
    IN  IF assistants = <<>>
        THEN [status |-> "pending", message |-> NoneS]
        ELSE IF after_message_id # NoneS /\ SortedLatest(assistants).id = after_message_id
        THEN [status |-> "no_new_message", message |-> NoneS]
        ELSE [status |-> "ok", message |-> SortedLatest(assistants).id]

\* GET /trip/latest?thread_id=..&after_message_id=..; a failing db-service
\* call becomes HTTP 500
GetLatestReply(thread_id, after_message_id) ==
    /\ \E up \in BOOLEAN :
          \E r \in {get_latest_reply(thread_id, after_message_id)} :
              latest' = [called |-> TRUE, thread_id |-> thread_id,
                         after_message_id |-> after_message_id,
                         status |-> IF up THEN r.status ELSE "500",
                         message |-> IF up THEN r.message ELSE NoneS]
    /\ UNCHANGED <<queue, enqueued, running, workerVars, dbVars, use_gemini, firstPlan,
                   pendingRetry, vdbVars>>

\* ------------------------------------------------------------ specifications
Next ==
    \/ \E p \in Payloads : submit_trip_request(p)
    \/ handle_shutdown
    \/ LoopTest
    \/ PopItem
    \/ PopTimeout
    \/ PopRetry
    \/ Dispatch
    \/ Backoff
    \/ Completed
    \/ Normalize
    \/ PersistNormalised
    \/ BuildContext
    \/ Retrieve
    \/ Generate
    \/ PersistAssistant
    \/ Handler

Spec == Init /\ [][Next]_vars

\* The steps of the worker coroutine.  asyncio.run keeps running it: every
\* await of the loop returns (BLPOP has a timeout, the sleeps end, the http
\* calls have timeouts), so a step that stays possible is eventually taken.
\* Pushes and the shutdown signal come from outside and need not happen.
WorkerStep ==
    \/ LoopTest
    \/ PopItem
    \/ PopTimeout
    \/ PopRetry
    \/ Dispatch
    \/ Backoff
    \/ Completed
    \/ Normalize
    \/ PersistNormalised
    \/ BuildContext
    \/ Retrieve
    \/ Generate
    \/ PersistAssistant
    \/ Handler

SpecLive == Init /\ [][Next]_vars /\ WF_vars(WorkerStep)

\* ------------------------------------------------- queue order harness
\* The n-th POST /trip/plan of a client that numbers its requests: the
\* request_id tells when the request was enqueued.
ArrivalId(n) == "q" \o ToString(n)
QueueRequest(n) == MkPayload("dict", ArrivalId(n), "t1", "m1", "c", <<>>, <<>>, <<0>>)
Arrival(item) == CHOOSE n \in 1..MaxEnqueue : item.request_id = ArrivalId(n)

NextQueue ==
    \/ \E p \in {QueueRequest(enqueued + 1)} : submit_trip_request(p)
    \/ handle_shutdown
    \/ WorkerStep

SpecQueue == Init /\ [][NextQueue]_vars

\* normalize on its own: the requests offered to it
NormDates == {<<>>, <<60>>, <<152>>, <<155>>}
NormHints == {<<>>} \cup { <<d>> : d \in (0 - 2)..MaxHint }
NormDifficulties == {NoneS, "easy", "MEDIUM", "HARD", "EXTREME"}
NormBands == {NoneS, "USD_0_500", "USD_500_1000", "LUXURY"}
\* trip_types, travel_modes, accommodation, amenities
NormLists ==
    { << <<>>, <<>>, <<>>, <<>> >>,
      << <<"CAMPING", "SKIING">>, <<"CAR", "PLANE">>, <<"HOTEL", "camping">>,
         <<"PARKING", "SPA">> >>,
      << <<"SKIING">>, <<"PLANE">>, <<"VILLA">>, <<"SPA">> >> }

NormPayloads ==
    { [MkPayload("dict", "r1", "t1", "m1", "c", start, end, dd)
          EXCEPT !.difficulty = diff, !.budget_level = band,
                 !.trip_types = ls[1], !.travel_modes = ls[2],
                 !.accommodation = ls[3], !.amenities = ls[4]] :
        start \in NormDates, end \in NormDates, dd \in NormHints,
        diff \in NormDifficulties, band \in NormBands, ls \in NormLists }

\* process_trip_request at the given stage, the stages in done having run
InitStage(stage, done, persisted) ==
    /\ queue = <<>>
    /\ enqueued = 0
    /\ running = TRUE
    /\ pc = stage
    /\ ctx = NoCtx
    /\ grounded = NoGrounded
    /\ plan = NoPlan
    /\ exc = "none"
    /\ stages = done
    /\ outcome = "running"
    /\ diag = FALSE
    /\ faults = {}
    /\ threads = {"t1"}
    /\ normalised = persisted
    /\ use_gemini = FALSE
    /\ firstPlan = {}
    /\ pendingRetry = {}
    /\ memStore = {}
    /\ upserts = 0
    /\ lastUpsert = [d \in DocIds |-> <<>>]
    /\ latest = NoLatest

InitNorm ==
    /\ InitStage("normalize", <<>>, {})
    /\ task \in NormPayloads
    /\ norm = NoNorm
    /\ messages = << MkRow("m1", "t1", "user", <<"hi">>, 1) >>

NextNorm == Normalize

SpecNorm == InitNorm /\ [][NextNorm]_vars

\* build_context on its own: the chat texts and requests offered to it
ChatTexts ==
    { <<"drive", "to", "Truckee", "from", "Fremont", ",", "one", "day", "trip", ",",
        "leave", "at", "7am">>,
      <<"trip", "to", "Tahoe">>,
      <<"visit", "Reno">>,
      <<"weekend", "in", "Napa">>,
      <<"for", "Tahoe">>,
      <<"from", "Reno">>,
      <<"to", "reno">>,
      <<"from", "Fremont", "to", "Truckee">>,
      <<"to", "leave">>,
      <<"to", "truckey", "only">>,
      <<"3", "days", ",", "by", "car">>,
      <<"depart", "12am">>,
      <<"hi">> }

\* the thread of the request: user turns oldest first, the last one being
\* the message of the request
Histories == UNION { [1..n -> ChatTexts] : n \in 1..MaxTurns }
HistoryRows(h) ==
    [i \in 1..Len(h) |->
        MkRow(IF i = Len(h) THEN "m1" ELSE "h" \o ToString(i), "t1", "user", h[i], i)]

CtxPayloads ==
    { MkPayload("dict", "r1", "t1", "m1", "c", <<>>, <<>>, <<>>),
      [MkPayload("dict", "r1", "t1", "m1", "c", <<>>, <<>>, <<2>>)
          EXCEPT !.destination = MkPlace(<<"Reno">>, "US-NV"),
                 !.travel_modes = <<"TRAIN">>],
      [MkPayload("dict", "r1", "t1", "m1", "c", <<152>>, <<155>>, <<>>)
          EXCEPT !.destination = MkPlace(<<>>, "US-CA")],
      [MkPayload("dict", "r1", "t1", "m1", "c", <<>>, <<>>, <<>>)
          EXCEPT !.origin = MkPlace(<<"Fremont">>, "US-CA"),
                 !.destination = MkPlace(<<"Truckee">>, "US-CA")],
      [MkPayload("dict", "r1", "t1", "m1", "c", <<>>, <<>>, <<>>)
          EXCEPT !.origin = MkPlace(<<"leave">>, NoneS)] }

InitCtx ==
    /\ InitStage("build_context", <<"normalize", "persist_norm">>, {"m1"})
    /\ task \in CtxPayloads
    /\ norm = normalize(task)
    /\ \E h \in Histories : messages = HistoryRows(h)

NextCtx == BuildContext

SpecCtx == InitCtx /\ [][NextCtx]_vars

\* GET /trip/latest on its own: threads of a few rows and of about
\* LATEST_LIMIT rows, the assistant rows among the first two and last two
ThreadLengths == {0, 1, 2, 3, MaxThread - 2, MaxThread - 1, MaxThread}
EdgePositions(n) == {1, 2, n - 1, n} \cap (1..n)
LatestThread(n, A) ==
    [i \in 1..n |-> MkRow("x" \o ToString(i), "t1",
                          IF i \in A THEN "assistant" ELSE "user", <<"hi">>, i)]

InitLatest ==
    /\ queue = <<>>
    /\ enqueued = 0
    /\ running = TRUE
    /\ pc = "loop"
    /\ task = NoTask
    /\ norm = NoNorm
    /\ ctx = NoCtx
    /\ grounded = NoGrounded
    /\ plan = NoPlan
    /\ exc = "none"
    /\ stages = <<>>
    /\ outcome = "idle"
    /\ diag = FALSE
    /\ faults = {}
    /\ threads = {"t1"}
    /\ \E n \in ThreadLengths : \E A \in SUBSET EdgePositions(n) :
          messages = LatestThread(n, A)
    /\ normalised = {}
    /\ use_gemini = FALSE
    /\ firstPlan = {}
    /\ pendingRetry = {}
    /\ memStore = {}
    /\ upserts = 0
    /\ lastUpsert = [d \in DocIds |-> <<>>]
    /\ latest = NoLatest

\* build_context on threads around SHORT_WINDOW_MSG_COUNT and STATE_WINDOW
\* rows; the current request is the newest row of the thread
WindowLengths == {1, 2, SHORT_WINDOW_MSG_COUNT + 1, MaxHistory - 1, MaxHistory}

InitWindow ==
    \E n \in WindowLengths : \E A \in SUBSET EdgePositions(n) :
        /\ InitStage("build_context", <<"normalize", "persist_norm">>,
                     {"x" \o ToString(n)})
        /\ task = MkPayload("dict", "r1", "t1", "x" \o ToString(n), "c", <<>>, <<>>, <<>>)
        /\ norm = normalize(task)
        /\ messages = LatestThread(n, A)

NextWindow == BuildContext

SpecWindow == InitWindow /\ [][NextWindow]_vars

\* build_context on small threads whose rows may share a created_at, the
\* table holding them in any physical order
OrderTexts == { <<"to", "reno">>, <<"to", "Tahoe">>, <<"hi">> }
OrderTables(maxRows) ==
    UNION { { [i \in 1..n |-> MkRow("h" \o ToString(perm[i]), "t1", "user",
                                    text[perm[i]], stamp[perm[i]])] :
                text \in [1..n -> OrderTexts], stamp \in [1..n -> 1..MaxStamp],
                perm \in Permutations(1..n) } : n \in 2..maxRows }

InitOrder ==
    /\ InitStage("build_context", <<"normalize", "persist_norm">>, {"h1"})
    /\ task = MkPayload("dict", "r1", "t1", "h1", "c", <<>>, <<>>, <<>>)
    /\ norm = normalize(task)
    /\ messages \in OrderTables(MaxOrderRows)

NextOrder == BuildContext

SpecOrder == InitOrder /\ [][NextOrder]_vars

\* the cursors offered as after_message_id: none, or the id of an edge row
AfterIds == {NoneS} \cup { messages[i].id : i \in EdgePositions(Len(messages)) }

NextLatest == \E after \in AfterIds : GetLatestReply("t1", after)

SpecLatest == InitLatest /\ [][NextLatest]_vars

NextVdb == \E tid \in VdbThreads, mid \in VdbMessages, text \in VdbTexts :
              upsert_memory_route(tid, mid, text)

SpecVdb == Init /\ [][NextVdb]_vars

\* ------------------------------------------------------------------ claims
InvocationEnded == outcome \in {"plan", "returned_none", "raised"}
Range(q) == { q[i] : i \in 1..Len(q) }
DbOutages == {"norm_db", "assistant_db", "diag_db"}

\* C1: whenever a step of process_trip_request raised, the invocation ends
\* with an exception reaching the caller, also when the diagnostic message
\* was persisted.
C1_ExceptionReachesCaller ==
    (InvocationEnded /\ exc # "none") => outcome = "raised"

\* C2: every invocation ends with a plan returned, or a diagnostic message
\* persisted, or an exception propagating to the caller.
C2_NoSilentDrop ==
    InvocationEnded => (outcome = "plan" \/ diag \/ outcome = "raised")

\* what build_context and retrieve hand on when collaborators failed
Degraded ==
    /\ ctx.set /\ grounded.set
    /\ "history" \in faults => (ctx.recent = <<>> /\ ctx.history = <<>>)
    /\ "query" \in faults => ctx.long_term_memories = <<>>
    /\ "weather" \in faults => ~grounded.retrieved_data.weather
    /\ "pois" \in faults => grounded.retrieved_data.pois = <<>>

\* C3: whatever collaborators fail, build_context and retrieve return
\* normally with degraded results and the invocation goes on to generate_plan.
C3_CollaboratorErrorsNonFatal ==
    [][ /\ pc = "build_context" => pc' \in {"build_context", "retrieve"}
        /\ pc = "retrieve" => pc' \in {"retrieve", "generate"}
        /\ pc' = "generate" => Degraded' ]_vars

C3_Witness ==
    pc = "generate" /\ {"history", "query", "weather", "pois"} \subseteq faults

\* C4: no exception leaves generate_plan, and when the model call raises,
\* times out or answers something that is not a trip plan object, the plan
\* returned is the one of the rule-based planner.
C4_GeneratePlanTotal ==
    [][ pc = "generate" =>
          /\ pc' \in {"generate", "persist_assistant"}
          /\ (pc' = "persist_assistant" /\ faults' \cap FailingKinds # {})
                => plan' = _rule_based_plan(grounded, ctx) ]_vars

C4_Witness ==
    pc = "persist_assistant" /\ "unparsable" \in faults /\ plan.src = "fallback"

\* the Trip Plan invariant of days and itinerary
PlanWellFormed(p) ==
    /\ ("days" \in p.keys /\ p.days = 0) => ("itinerary" \in p.keys /\ p.itinerary = <<>>)
    /\ ("days" \in p.keys /\ p.days >= 1) =>
          /\ "itinerary" \in p.keys
          /\ Len(p.itinerary) = p.days
          /\ \A i \in 1..Len(p.itinerary) : p.itinerary[i].day = i

\* C5: every plan returned by generate_plan, from the model path or from the
\* fallback, has days = 0 with an empty itinerary or days = N >= 1 with N
\* entries numbered 1..N.
C5_PlanInvariant ==
    plan.src # "none" => PlanWellFormed(plan)

\* C6: a model response that lacks the required keys days or itinerary is
\* not returned; the fallback plan is.
C6_MissingKeysFallBack ==
    plan.src = "gemini" => {"days", "itinerary"} \subseteq plan.keys

\* C7: after a validation error in normalize no later stage runs, no
\* assistant message is persisted and the error reaches the caller.
C7_ValidationTerminal ==
    (InvocationEnded /\ exc = "normalize") =>
        /\ stages = <<"normalize">>
        /\ outcome = "raised"

RecordsOf(d) == { r \in memStore : r.id = d }

\* C8 as stated: at most one record per id, and after two upserts of the
\* same id with different text exactly one record, carrying the later text.
C8_UpsertLatestText ==
    \A d \in DocIds :
        /\ Cardinality(RecordsOf(d)) <= 1
        /\ (Len(lastUpsert[d]) = 2 /\ lastUpsert[d][1] # lastUpsert[d][2])
              => RecordsOf(d) = { [id |-> d, text |-> lastUpsert[d][2]] }

\* C8 amended: at most one record per id, and after two upserts of the same
\* id with different text, the later one not empty, exactly one record,
\* carrying the later text.
C8_UpsertLatestNonEmptyText ==
    \A d \in DocIds :
        /\ Cardinality(RecordsOf(d)) <= 1
        /\ (Len(lastUpsert[d]) = 2 /\ lastUpsert[d][1] # lastUpsert[d][2]
              /\ lastUpsert[d][2] # "")
              => RecordsOf(d) = { [id |-> d, text |-> lastUpsert[d][2]] }

C8_Witness ==
    /\ lastUpsert[DocId("t1", "m1")] = <<"a", "b">>
    /\ RecordsOf(DocId("t1", "m1")) = { [id |-> DocId("t1", "m1"), text |-> "b"] }

\* C9: a second invocation for a request whose first invocation returned a
\* plan also returns a plan, unless a collaborator is down.
C9_DuplicateDeliveryTolerated ==
    (InvocationEnded /\ task \in firstPlan /\ faults \cap DbOutages = {})
        => outcome = "plan"

\* C10: a request whose processing raised in the worker loop is pending
\* again once the loop is back at polling.
C10_FailedRequestNotLost ==
    pc \in {"loop", "pop", "pop_sleep"} => pendingRetry \subseteq Range(queue)
\* C11: the worker loop takes a request off the queue only when no
\* process_trip_request invocation is running, that is when every earlier
\* invocation has returned or raised.
C11_OneInFlight ==
    [][ Len(queue') < Len(queue) => outcome # "running" ]_vars

\* a request has been popped after an earlier invocation returned its plan
C11_Witness ==
    pc = "got" /\ task.kind = "dict" /\ outcome = "idle" /\ firstPlan # {}

InVocabulary(xs, vocabulary) == \A i \in 1..Len(xs) : xs[i] \in vocabulary
Elems(xs) == { xs[i] : i \in 1..Len(xs) }

\* C16: after normalize every value of trip_types, difficulty.level,
\* transport.allowed, lodging.types and lodging.amenities_prefer that is
\* present belongs to its vocabulary.
C16_EnumsInVocabulary ==
    norm.set =>
        LET c == norm.constraints
        IN  /\ InVocabulary(c.trip_types, SUPPORTED_TRIP_TYPES)
            /\ c.difficulty.level # NoneS => c.difficulty.level \in SUPPORTED_DIFFICULTY
            /\ InVocabulary(c.transport.allowed, SUPPORTED_TRAVEL_MODES)
            /\ InVocabulary(c.lodging.types, SUPPORTED_ACCOM)
            /\ InVocabulary(c.lodging.amenities_prefer, SUPPORTED_AMENITIES)

C16_Witness ==
    /\ norm.set
    /\ task.trip_types = <<"CAMPING", "SKIING">>
    /\ norm.constraints.trip_types = <<"CAMPING">>
    /\ norm.constraints.lodging.amenities_prefer = <<"PARKING">>
    /\ task.difficulty = "HARD"
    /\ norm.constraints.difficulty.level = "HARD"

\* C17: a value outside the vocabulary is dropped and never replaced by
\* another value: every normalized list holds only values the caller gave,
\* the difficulty level is the caller's label or absent, a difficulty other
\* than EASY or MODERATE has effort profile HIGH, and no difficulty is
\* present when the caller gave none.
C17_DroppedNotCoerced ==
    norm.set =>
        LET c == norm.constraints
        IN  /\ Elems(c.trip_types) \subseteq Elems(task.trip_types)
            /\ Elems(c.transport.allowed) \subseteq Elems(task.travel_modes)
            /\ Elems(c.lodging.types) \subseteq Elems(task.accommodation)
            /\ Elems(c.lodging.amenities_prefer) \subseteq Elems(task.amenities)
            /\ c.difficulty.level # NoneS => c.difficulty.level = Upper(task.difficulty)
            /\ (task.difficulty # NoneS /\ Upper(task.difficulty) \notin {"EASY", "MODERATE"})
                   => c.difficulty.effort_profile = "HIGH"
            /\ task.difficulty = NoneS => c.difficulty.level = NoneS

\* C18 as stated: with both dates days = max(1, end - start), 3 and SUMMER
\* for 2025-06-01 to 2025-06-04; otherwise days is the duration_days hint;
\* otherwise None; no season_hint without a start date.
C18_DaysFromDatesOrHint ==
    norm.set =>
        /\ IF task.start # <<>> /\ task.end # <<>>
           THEN norm.days = << IF task.end[1] - task.start[1] > 1
                               THEN task.end[1] - task.start[1] ELSE 1 >>
           ELSE norm.days = task.duration_days
        /\ (task.start = <<152>> /\ task.end = <<155>>)
              => (norm.days = <<3>> /\ norm.season_hint = "SUMMER")
        /\ task.start = <<>> => norm.season_hint = NoneS

\* C18 amended: as C18, the hint being used when it is not 0; a hint of 0
\* leaves days at None.
C18_DaysFromDatesOrNonZeroHint ==
    norm.set =>
        /\ IF task.start # <<>> /\ task.end # <<>>
           THEN norm.days = << IF task.end[1] - task.start[1] > 1
                               THEN task.end[1] - task.start[1] ELSE 1 >>
           ELSE IF task.duration_days # <<>> /\ task.duration_days # <<0>>
                THEN norm.days = task.duration_days
                ELSE norm.days = <<>>
        /\ (task.start = <<152>> /\ task.end = <<155>>)
              => (norm.days = <<3>> /\ norm.season_hint = "SUMMER")
        /\ task.start = <<>> => norm.season_hint = NoneS

C18_Witness ==
    /\ norm.set
    /\ task.start = <<152>> /\ task.end = <<155>> /\ task.duration_days = <<5>>
    /\ norm.days = <<3>> /\ norm.season_hint = "SUMMER"

\* C19 as stated: for a known band ceiling_total is the upper bound of the
\* band and per_day = max(1, ceiling_total / days) exactly when days is
\* known (1000 and 200 for USD_500_1000 and 5 days); per_day is None when
\* the band or days is unknown.
C19_BudgetPerDay ==
    norm.set =>
        LET b == norm.constraints.budget
        IN  /\ task.budget_level \in DOMAIN BUDGET_BANDS =>
                  /\ b.ceiling_total = <<BUDGET_BANDS[task.budget_level][2]>>
                  /\ norm.days # <<>> =>
                         b.per_day = << Max(1, TruncDiv(b.ceiling_total[1], norm.days[1])) >>
                  /\ norm.days = <<>> => b.per_day = <<>>
            /\ task.budget_level \notin DOMAIN BUDGET_BANDS => b.per_day = <<>>
            /\ (task.budget_level = "USD_500_1000" /\ norm.days = <<5>>)
                  => (b.ceiling_total = <<1000>> /\ b.per_day = <<200>>)

\* C19 amended: as C19 with per_day = max(1, ceiling_total / max(1, days)),
\* days being clamped at 1 before the division.
C19_BudgetPerDayClamped ==
    norm.set =>
        LET b == norm.constraints.budget
        IN  /\ task.budget_level \in DOMAIN BUDGET_BANDS =>
                  /\ b.ceiling_total = <<BUDGET_BANDS[task.budget_level][2]>>
                  /\ norm.days # <<>> =>
                         b.per_day = << Max(1, TruncDiv(b.ceiling_total[1],
                                                        Max(1, norm.days[1]))) >>
                  /\ norm.days = <<>> => b.per_day = <<>>
            /\ task.budget_level \notin DOMAIN BUDGET_BANDS => b.per_day = <<>>
            /\ (task.budget_level = "USD_500_1000" /\ norm.days = <<5>>)
                  => (b.ceiling_total = <<1000>> /\ b.per_day = <<200>>)

C19_Witness ==
    /\ norm.set
    /\ task.budget_level = "USD_500_1000" /\ norm.days = <<5>>
    /\ norm.constraints.budget.ceiling_total = <<1000>>
    /\ norm.constraints.budget.per_day = <<200>>
\* the destination one user text specifies on its own
DestinationOf(text) ==
    _derive_anchors_from_chat(<<MkRow("m", "t", "user", text, 1)>>).destination_name

\* C12: when the history holds two user turns that specify different
\* destinations, the destination_name of the anchor set is the one of the
\* later turn.
C12_LatestDestinationWins ==
    (ctx.set /\ Len(ctx.history) = 2) =>
        LET d1 == DestinationOf(ctx.history[1].text)
            d2 == DestinationOf(ctx.history[2].text)
        IN  (d1 # <<>> /\ d2 # <<>> /\ d1 # d2) => ctx.derived.destination_name = d2

ScenarioB ==
    <<"drive", "to", "Truckee", "from", "Fremont", ",", "one", "day", "trip", ",",
      "leave", "at", "7am">>

\* C13: the single user turn "drive to Truckee from Fremont, one day trip,
\* leave at 7am" gives origin Fremont, destination Truckee, 1 day, departure
\* 07:00, return the same day and travel mode CAR.
C13_ToFromScenario ==
    (ctx.set /\ Len(ctx.history) = 1 /\ ctx.history[1].text = ScenarioB) =>
        ctx.derived = [origin_name |-> <<"Fremont">>,
                       destination_name |-> <<"Truckee">>,
                       duration_days |-> <<1>>,
                       depart_time_hhmm |-> "07:00",
                       return_same_day |-> <<TRUE>>,
                       travel_mode |-> "CAR"]

\* C14: in the anchor set, when origin and destination are the same place
\* (case-insensitive) the destination_name is None: no anchor set names the
\* same place as origin and as destination.
C14_LoopDestinationDropped ==
    ctx.set =>
        ~ /\ ctx.derived.origin_name # <<>>
          /\ LowerSeq(ctx.derived.origin_name) = LowerSeq(ctx.derived.destination_name)

\* C15: time.days, transport.allowed, geoscope.origin and
\* geoscope.destination of the context pack are those of the normalized
\* intent whenever the intent carries an explicit valid value (the intent
\* never carries depart_time_local or return_same_day).
C15_BackfillNeverOverrides ==
    ctx.set =>
        /\ norm.days # <<>> => ctx.days = norm.days
        /\ norm.constraints.transport.allowed # <<>>
              => ctx.constraints.transport.allowed = norm.constraints.transport.allowed
        /\ _is_valid_place_name(norm.geoscope.origin.name)
              => ctx.geoscope.origin = norm.geoscope.origin
        /\ _is_valid_place_name(norm.geoscope.destination.name)
              => ctx.geoscope.destination = norm.geoscope.destination
\* "parking" in notes.lower()
MentionsParking(notes) == \E i \in 1..Len(notes) : Lower(notes[i]) = "parking"

\* C20: when the amenities filter of the turn includes PARKING, the lodging
\* notes of the plan returned by generate_plan mention parking.
C20_ParkingGuardrail ==
    (/\ plan.src # "none"
     /\ "PARKING" \in Elems(ctx.constraints.lodging.amenities_prefer)
     /\ plan.lodging.present)
        => MentionsParking(plan.lodging.notes)

\* C21: GET /trip/latest answers pending exactly when the thread has no
\* assistant message, and otherwise answers with the assistant message of
\* the greatest created_at in the whole thread (ok), or no_new_message when
\* that message is the one named by after_message_id.
AssistantsOf(tid) ==
    { messages[i] : i \in { j \in 1..Len(messages) :
          messages[j].thread_id = tid /\ messages[j].role = "assistant" } }
C21_LatestAssistant ==
    latest.called /\ latest.status # "500" =>
        LET as == AssistantsOf(latest.thread_id)
            top == CHOOSE m \in as : \A o \in as : o.created_at <= m.created_at
        IN  /\ (latest.status = "pending") <=> (as = {})
            /\ as # {} =>
                  IF top.id = latest.after_message_id
                  THEN latest.status = "no_new_message"
                  ELSE latest.status = "ok" /\ latest.message = top.id

\* C22: when build_context returns for a turn with a thread_id and a latest
\* user message with id and text, the history collaborator having answered,
\* the long-term store holds exactly one record with the id
\* thread_id:message_id of that user turn.
C22_UpsertBeforeQuery ==
    /\ pc = "retrieve" /\ ctx.set /\ "history" \notin faults
    /\ ctx.thread_id # NoneS /\ ctx.last_user # <<>> /\ ctx.last_user[1].text # <<>>
    => Cardinality({ r \in memStore :
                       r.id = DocId(ctx.thread_id, ctx.last_user[1].id) }) = 1

\* C23: recent_messages of the context pack is the SHORT_WINDOW_MSG_COUNT
\* most recent messages of the whole thread, oldest first, and
\* last_user_message is the most recent user message of the whole thread.
ThreadByTime(tid) == SortByCreatedAt(FilterThread(messages, tid))
C23_WindowIsLastN ==
    pc = "retrieve" /\ ctx.set /\ "history" \notin faults =>
        /\ ctx.recent = LastN(ThreadByTime(ctx.thread_id), SHORT_WINDOW_MSG_COUNT)
        /\ ctx.last_user = LastUser(ThreadByTime(ctx.thread_id))

\* C24: build_context yields the same recent_messages and the same
\* chat-derived anchors for every order in which the history collaborator
\* may return the rows of the thread.
Reordered(rows, perm) == [i \in 1..Len(rows) |-> rows[perm[i]]]
C24_OrderIndependent ==
    pc = "retrieve" /\ ctx.set /\ "history" \notin faults =>
        LET resp == get_by_thread(ctx.thread_id, 0, STATE_WINDOW)
        IN  \A perm \in Permutations(1..Len(resp)) :
                \E other \in {build_context_from(norm, TRUE, Reordered(resp, perm)).pack} :
                    other.recent = ctx.recent /\ other.derived = ctx.derived

\* C25: when the history collaborator returns no messages for the thread,
\* the context pack built for a request with content and a message_id has
\* as last_user_message a user turn with that message_id and that text.
C25_FirstTurnSynthesis ==
    /\ pc = "retrieve" /\ ctx.set /\ "history" \notin faults /\ ctx.history = <<>>
    /\ task.content # NoneS /\ task.message_id # NoneS
    => /\ ctx.last_user # <<>>
       /\ ctx.last_user[1].id = task.message_id
       /\ ctx.last_user[1].text = <<task.content>>

\* C26: in a plan of the fallback planner, built on the grounded context
\* retrieve produced in the same turn, day d has as activities the retrieved
\* POIs at 0-based positions 3(d-1) .. 3d-1 of the retrieved POI list, in
\* retrieval order.
C26_PoisReachFallback ==
    plan.src = "fallback" /\ grounded.set =>
        \A d \in 1..plan.days :
            plan.itinerary[d].activities =
                Slice(grounded.retrieved_data.pois, 3 * (d - 1), 3 * d)

\* C27: within one process_trip_request invocation the stages start in the
\* order normalize, persist normalized message, build_context, retrieve,
\* generate_plan, persist assistant message, each only after the previous
\* one completed without error; an assistant message is persisted at most
\* once per invocation and only after generate_plan returned.
StageOrder ==
    <<"normalize", "persist_norm", "build_context", "retrieve", "generate",
      "persist_assistant">>
AssistantRows(rows) == { i \in 1..Len(rows) : rows[i].role = "assistant" }
StagesCompleted(st, nm, persisted, pack, g, p) ==
    /\ Len(st) <= Len(StageOrder) /\ st = SubSeq(StageOrder, 1, Len(st))
    /\ Len(st) >= 2 => nm.set
    /\ Len(st) >= 3 => nm.message_id \in persisted
    /\ Len(st) >= 4 => pack.set
    /\ Len(st) >= 5 => g.set
    /\ Len(st) >= 6 => p.src # "none"
C27_StagesForward ==
    [][ /\ StagesCompleted(stages', norm', normalised', ctx', grounded', plan')
        /\ exc # "none" => stages' \in {stages, <<>>}
        /\ AssistantRows(messages') # AssistantRows(messages) =>
              /\ Cardinality(AssistantRows(messages')) =
                    Cardinality(AssistantRows(messages)) + 1
              /\ pc = "persist_assistant" /\ plan.src # "none"
              /\ stages = SubSeq(StageOrder, 1, 5) ]_vars

\* all six stages of an invocation have run and the plan was returned
C27_Witness ==
    pc = "returned" /\ outcome = "plan" /\ stages = StageOrder

\* C28: after a shutdown signal has set running to False, the worker loop
\* eventually leaves its loop and calls orchestrator.close(), also when the
\* queue stays empty.
C28_ShutdownTerminates == (~running) ~> (pc = "closed")

\* C29: the queue is last-in-first-out: the request the worker dequeues was
\* enqueued after every request still pending, so a pending request is taken
\* only when no later-enqueued request is pending; the others stay pending.
C29_LastInFirstOut ==
    [][ (pc = "pop" /\ pc' = "got") =>
            /\ \A i \in 1..Len(queue') : Arrival(queue'[i]) < Arrival(task')
            /\ queue = <<task'>> \o queue' ]_vars

\* an older request is left waiting while the newer one is taken
C29_Witness ==
    /\ pc = "got"
    /\ task.kind = "dict"
    /\ queue # <<>>
    /\ \A i \in 1..Len(queue) : Arrival(queue[i]) < Arrival(task)

\* C30: in every anchor set the extractor returns, for every sequence of
\* user turns, return_same_day = True implies duration_days = 1.
C30_SameDayIsOneDay ==
    ctx.set =>
        (ctx.derived.return_same_day = <<TRUE>> => ctx.derived.duration_days = <<1>>)
====
